---- MODULE Spec2Model ----
(***************************************************************************)
(* Model of nsedt.equity.get_price: the partition of a date range into     *)
(* request windows, the dispatch of one fetch task per window to a         *)
(* ThreadPoolExecutor, the wait for all tasks and the merge of their       *)
(* results.  Calendar dates are day numbers; a request URL is represented  *)
(* by the pair of its "from" and "to" parameters (symbol, series and       *)
(* dataType are the same in every URL of one call).                        *)
(***************************************************************************)
EXTENDS Integers, Sequences, FiniteSets, TLC

\* ---- bounds of the model ----
MaxDay == 6
MaxWindow == 2
MaxWorkers == 2
MaxRows == 1

VARIABLES
    start_date,            \* argument, after check_nd_convert
    end_date,              \* argument, after check_nd_convert
    input_type,            \* argument "stock" | "index"
    window_size,           \* cns.WINDOW_SIZE in days (window_size, line 102)
    max_workers,           \* cns.MAX_WORKERS (line 128)
    pc,                    \* position of the calling (orchestrator) thread
    current_window_start,  \* loop variable of the partition loop
    url_list,              \* the request URLs, one per window
    futures,               \* future_to_url: the submitted fetch tasks
    not_yielded,           \* futures as_completed has not yielded yet
    result,                \* the accumulated DataFrame, a sequence of rows
    error,                 \* the exception get_price raised, or NoError
    returned               \* the value get_price returned, or NoTable

vars == <<start_date, end_date, input_type, window_size, max_workers, pc,
          current_window_start, url_list, futures, not_yielded, result,
          error, returned>>

\* outcomes of the call: the exception raised and the table returned
NoError == [type |-> "NoError", task |-> 0]

InvalidRangeError == [type |-> "InvalidRangeError", task |-> 0]

NoTable == [table |-> FALSE, rows |-> <<>>]

Table(t) == [table |-> TRUE, rows |-> t]

Min(a, b) == IF a <= b THEN a ELSE b

CeilDiv(a, b) == (a + b - 1) \div b

\* utils.check_nd_convert: coerces both arguments to dates and rejects a
\* range whose end precedes its start.
check_nd_convert(s, e) ==
    IF e < s THEN [ok |-> FALSE, start |-> s, end |-> e]
             ELSE [ok |-> TRUE, start |-> s, end |-> e]

\* data_format.price: renames and normalises the columns of the table; the
\* rows are kept.
price(table) == table

\* the exception a failed fetch task holds
TaskError(i) == [type |-> "RemoteFetchError", task |-> i]

\* the DataFrame a successful fetch task of n rows returns
DataFrame(i, n) == [k \in 1..n |-> <<i, k>>]

\* while current_window_start < end_date
LoopCond(cur, end) == cur < end

\* current_window_end = min(current_window_start + window_size, end_date)
WindowEndNoClamp(cur, w, end) == cur + w + 1

WindowEndShort(cur, w, end) == Min(cur + w - 1, end)

WindowEnd(cur, w, end) == Min(cur + w, end)

\* if input_type == "stock": url_list.append(url)
UrlListAlways(urls, type, from, to) == Append(urls, [from |-> from, to |-> to])

UrlListNext(urls, type, from, to) ==
    IF type = "stock" THEN Append(urls, [from |-> from, to |-> to])
                      ELSE urls

\* pd.concat([result, dataframe])
ConcatReplace(res, df) == df

Concat(res, df) == res \o df

Terminal(st) == st \in {"succeeded", "failed"}

Running == {i \in 1..Len(futures) : futures[i].state = "running"}

Pending == {i \in 1..Len(futures) : futures[i].state = "pending"}

\* ThreadPoolExecutor(max_workers=cns.MAX_WORKERS): a work item leaves the
\* queue only when one of the at most max_workers threads is idle.
CanDispatchUnbounded == TRUE

CanDispatch == Cardinality(Running) < max_workers

\* concurrent.futures.wait(future_to_url, return_when=ALL_COMPLETED)
WaitFirstCompleted ==
    futures = <<>> \/ \E i \in 1..Len(futures) : Terminal(futures[i].state)

WaitDone == \A i \in 1..Len(futures) : Terminal(futures[i].state)

Init ==
    /\ start_date \in 0..MaxDay
    /\ end_date \in 0..MaxDay
    /\ input_type \in {"stock", "index"}
    /\ window_size \in 1..MaxWindow
    /\ max_workers \in 1..MaxWorkers
    /\ pc = "call"
    /\ current_window_start = 0
    /\ url_list = <<>>
    /\ futures = <<>>
    /\ not_yielded = {}
    /\ result = <<>>
    /\ error = NoError
    /\ returned = NoTable

\* lines 96-106: set-up, date check, current_window_start = start_date
CallNoCheck ==
    /\ pc = "call"
    /\ pc' = "partition"
    /\ current_window_start' = start_date
    /\ UNCHANGED <<start_date, end_date, input_type, window_size, max_workers,
                   url_list, futures, not_yielded, result, error, returned>>

Call ==
    /\ pc = "call"
    /\ LET c == check_nd_convert(start_date, end_date) IN
         IF c.ok
         THEN /\ pc' = "partition"
              /\ start_date' = c.start
              /\ end_date' = c.end
              /\ current_window_start' = c.start
              /\ error' = error
         ELSE /\ pc' = "raised"
              /\ error' = InvalidRangeError
              /\ UNCHANGED <<start_date, end_date, current_window_start>>
    /\ UNCHANGED <<input_type, window_size, max_workers, url_list, futures,
                   not_yielded, result, returned>>

\* lines 107-125: one iteration of the partition loop
LoopStep ==
    /\ pc = "partition"
    /\ LoopCond(current_window_start, end_date)
    /\ LET current_window_end ==
               WindowEnd(current_window_start, window_size, end_date) IN
         /\ url_list' = UrlListNext(url_list, input_type,
                                    current_window_start, current_window_end)
         /\ current_window_start' = current_window_end + 1
    /\ UNCHANGED <<start_date, end_date, input_type, window_size, max_workers,
                   pc, futures, not_yielded, result, error, returned>>

\* line 107 false, line 127: result = pd.DataFrame(), the executor is created
LoopExit ==
    /\ pc = "partition"
    /\ ~LoopCond(current_window_start, end_date)
    /\ pc' = "submit"
    /\ result' = <<>>
    /\ UNCHANGED <<start_date, end_date, input_type, window_size, max_workers,
                   current_window_start, url_list, futures, not_yielded,
                   error, returned>>

\* lines 129-132: executor.submit(utils.fetch_url, url, ...) for the next url
Submit ==
    /\ pc = "submit"
    /\ Len(futures) < Len(url_list)
    /\ futures' = Append(futures, [url |-> url_list[Len(futures) + 1],
                                   state |-> "pending", rows |-> 0])
    /\ UNCHANGED <<start_date, end_date, input_type, window_size, max_workers,
                   pc, current_window_start, url_list, not_yielded, result,
                   error, returned>>

\* the comprehension of lines 129-132 is exhausted
SubmitDone ==
    /\ pc = "submit"
    /\ Len(futures) = Len(url_list)
    /\ pc' = "wait"
    /\ UNCHANGED <<start_date, end_date, input_type, window_size, max_workers,
                   current_window_start, url_list, futures, not_yielded,
                   result, error, returned>>

\* a worker thread of the pool takes the oldest queued work item
Dispatch ==
    /\ Pending # {}
    /\ CanDispatch
    /\ LET i == CHOOSE j \in Pending : \A k \in Pending : j <= k IN
         futures' = [futures EXCEPT ![i].state = "running"]
    /\ UNCHANGED <<start_date, end_date, input_type, window_size, max_workers,
                   pc, current_window_start, url_list, not_yielded, result,
                   error, returned>>

\* utils.fetch_url returns a DataFrame in a worker thread
TaskSucceed ==
    /\ \E i \in Running, n \in 0..MaxRows :
         futures' = [futures EXCEPT ![i].state = "succeeded", ![i].rows = n]
    /\ UNCHANGED <<start_date, end_date, input_type, window_size, max_workers,
                   pc, current_window_start, url_list, not_yielded, result,
                   error, returned>>

\* utils.fetch_url raises in a worker thread
TaskFail ==
    /\ \E i \in Running :
         futures' = [futures EXCEPT ![i].state = "failed"]
    /\ UNCHANGED <<start_date, end_date, input_type, window_size, max_workers,
                   pc, current_window_start, url_list, not_yielded, result,
                   error, returned>>

\* line 133 returns; line 134: as_completed starts over all futures
Wait ==
    /\ pc = "wait"
    /\ WaitDone
    /\ pc' = "collect"
    /\ not_yielded' = 1..Len(futures)
    /\ UNCHANGED <<start_date, end_date, input_type, window_size, max_workers,
                   current_window_start, url_list, futures, result, error,
                   returned>>

\* lines 134-141: as_completed yields a finished future (in the arbitrary
\* order of a set); its result is concatenated or its exception re-raised
CollectSwallow ==
    /\ pc = "collect"
    /\ \E f \in not_yielded :
         /\ Terminal(futures[f].state)
         /\ not_yielded' = not_yielded \ {f}
         /\ result' = IF futures[f].state = "succeeded"
                      THEN Concat(result, DataFrame(f, futures[f].rows))
                      ELSE result
    /\ UNCHANGED <<start_date, end_date, input_type, window_size, max_workers,
                   pc, current_window_start, url_list, futures, error,
                   returned>>

Collect ==
    /\ pc = "collect"
    /\ \E f \in not_yielded :
         /\ Terminal(futures[f].state)
         /\ not_yielded' = not_yielded \ {f}
         /\ IF futures[f].state = "succeeded"
            THEN /\ result' = Concat(result, DataFrame(f, futures[f].rows))
                 /\ UNCHANGED <<pc, error>>
            ELSE /\ pc' = "raised"
                 /\ error' = TaskError(f)
                 /\ result' = result
    /\ UNCHANGED <<start_date, end_date, input_type, window_size, max_workers,
                   current_window_start, url_list, futures, returned>>

\* line 142: return data_format.price(result)
Return ==
    /\ pc = "collect"
    /\ not_yielded = {}
    /\ pc' = "returned"
    /\ returned' = Table(price(result))
    /\ UNCHANGED <<start_date, end_date, input_type, window_size, max_workers,
                   current_window_start, url_list, futures, not_yielded,
                   result, error>>

Next ==
    \/ Call
    \/ LoopStep
    \/ LoopExit
    \/ Submit
    \/ SubmitDone
    \/ Dispatch
    \/ TaskSucceed
    \/ TaskFail
    \/ Wait
    \/ Collect
    \/ Return

Spec == Init /\ [][Next]_vars

(***************************************************************************)
(* Properties                                                              *)
(***************************************************************************)

\* the partition loop has run to its end (the date check passed)
PartitionDone == pc \notin {"call", "partition"} /\ error # InvalidRangeError

Finished == pc \in {"returned", "raised"}

AllTerminal ==
    \A i \in 1..Len(futures) : futures[i].state \in {"succeeded", "failed"}

Days(urls) == UNION {urls[i].from .. urls[i].to : i \in 1..Len(urls)}

Contiguous(urls) ==
    \A i \in 1..Len(urls) :
        /\ urls[i].from <= urls[i].to
        /\ i < Len(urls) => urls[i + 1].from = urls[i].to + 1

RECURSIVE SumRows(_)
SumRows(n) == IF n = 0 THEN 0 ELSE futures[n].rows + SumRows(n - 1)

Occurrences(row) == Cardinality({j \in 1..Len(result) : result[j] = row})

\* C1: for input_type "stock" and start <= end the windows are ordered,
\* contiguous, non-overlapping and their union is exactly the days from
\* start_date to end_date, the last window ending on end_date.
C1_WindowsCoverRange ==
    (PartitionDone /\ input_type = "stock" /\ start_date <= end_date) =>
        /\ Contiguous(url_list)
        /\ Days(url_list) = start_date..end_date
        /\ Len(url_list) >= 1
        /\ url_list[1].from = start_date
        /\ url_list[Len(url_list)].to = end_date

C3_SingleDayWindow ==
    (PartitionDone /\ input_type = "stock" /\ start_date = end_date) =>
        url_list = <<[from |-> start_date, to |-> end_date]>>

\* C4: if any fetch task failed, get_price never returns a table and, once
\* it has finished, it has raised the error of a failed task.
C4_FailureAborts ==
    LET Failed == {i \in 1..Len(futures) : futures[i].state = "failed"} IN
    Failed # {} =>
        /\ returned = NoTable
        /\ Finished => pc = "raised" /\ \E i \in Failed : error = TaskError(i)

C4_Witness ==
    /\ pc = "raised"
    /\ error.type = "RemoteFetchError"
    /\ result # <<>>
    /\ \E i \in 1..Len(futures) : futures[i].state = "failed" /\ i # error.task

\* C5: when every fetch task succeeded, the accumulated table holds every
\* row of every per-window table exactly once; its row count is the sum of
\* the per-window row counts.
C5_MergeKeepsAllRows ==
    (pc = "returned" /\ \A i \in 1..Len(futures) : futures[i].state = "succeeded") =>
        /\ Len(result) = SumRows(Len(futures))
        /\ \A i \in 1..Len(futures) : \A k \in 1..futures[i].rows :
               Occurrences(<<i, k>>) = 1

C5_Witness ==
    /\ pc = "returned"
    /\ Len(result) >= 2
    /\ result[1][1] > result[2][1]

\* C6: a call whose end date precedes its start date fails with
\* InvalidRangeError, dispatches no fetch task and returns no table.
C6_InvalidRange ==
    end_date < start_date =>
        /\ url_list = <<>>
        /\ futures = <<>>
        /\ returned = NoTable
        /\ pc # "call" => pc = "raised" /\ error = InvalidRangeError

C6_Witness == pc = "raised" /\ error = InvalidRangeError /\ end_date < start_date

\* C7: the orchestrator reads no task result, merges nothing and raises no
\* task error before every dispatched task is terminal, and only steps of
\* the orchestrator change the accumulated result.
C7_Barrier ==
    /\ [](( \/ pc \in {"collect", "returned"}
            \/ pc = "raised" /\ error.type = "RemoteFetchError" )
          => AllTerminal /\ Len(futures) = Len(url_list))
    /\ [][ (result' # result \/ not_yielded' # not_yielded \/ error' # error
                \/ returned' # returned)
           => (futures' = futures /\ pc \in {"call", "wait", "collect"}) ]_vars
    /\ [][ (result' # result \/ error'.type = "RemoteFetchError")
           => (pc = "collect" /\ AllTerminal) ]_vars

C7_Witness ==
    /\ pc = "collect"
    /\ Len(futures) >= 2
    /\ result # <<>>
    /\ not_yielded # {}

\* C8: when the window list is empty (start_date = end_date, or input_type
\* other than "stock") no fetch task is dispatched and the call ends by
\* returning an empty table, not by raising.
C8_EmptyWindowList ==
    /\ (PartitionDone /\ (start_date = end_date \/ input_type # "stock"))
          => url_list = <<>>
    /\ (PartitionDone /\ url_list = <<>>) =>
          /\ futures = <<>>
          /\ error = NoError
          /\ Finished => pc = "returned" /\ returned = Table(<<>>)

C8_Witness ==
    /\ pc = "returned"
    /\ start_date = end_date
    /\ input_type = "stock"
    /\ returned = Table(<<>>)

\* C9 as stated: every window spans at most max_span days counted
\* inclusively, ends at min(start + max_span, end_date), and the next
\* window starts one day after it.
C9_LengthAsStated ==
    \A i \in 1..Len(url_list) :
        /\ url_list[i].to - url_list[i].from + 1 <= window_size
        /\ url_list[i].to = Min(url_list[i].from + window_size, end_date)
        /\ i < Len(url_list) => url_list[i + 1].from = url_list[i].to + 1

\* C9 amended: every window spans at most max_span + 1 days counted
\* inclusively (its end is at most max_span days after its start), ends at
\* min(start + max_span, end_date), and the next window starts one day
\* after it.
C9_WindowLength ==
    /\ \A i \in 1..Len(url_list) :
        /\ url_list[i].to - url_list[i].from + 1 <= window_size + 1
        /\ url_list[i].to = Min(url_list[i].from + window_size, end_date)
        /\ i < Len(url_list) => url_list[i + 1].from = url_list[i].to + 1
    /\ (pc = "partition" /\ url_list # <<>>) =>
          current_window_start = url_list[Len(url_list)].to + 1

C9_Witness ==
    /\ Len(url_list) >= 2
    /\ url_list[1].to - url_list[1].from = window_size
    /\ url_list[2].to - url_list[2].from < window_size

\* C10: each window is one fetch task, at most max_workers tasks are
\* running at any time, and a task only moves pending -> running ->
\* succeeded | failed and never leaves a terminal state.
C10_BoundedParallelism ==
    /\ [](/\ Cardinality({i \in 1..Len(futures) : futures[i].state = "running"})
               <= max_workers
          /\ Len(futures) <= Len(url_list)
          /\ \A i \in 1..Len(futures) : futures[i].url = url_list[i]
          /\ (PartitionDone /\ pc # "submit") => Len(futures) = Len(url_list))
    /\ [][ /\ Len(futures') >= Len(futures)
           /\ \A i \in 1..Len(futures') :
                IF i > Len(futures)
                THEN futures'[i].state = "pending"
                ELSE \/ futures'[i].state = futures[i].state
                     \/ futures[i].state = "pending"
                          /\ futures'[i].state = "running"
                     \/ futures[i].state = "running"
                          /\ futures'[i].state \in {"succeeded", "failed"} ]_vars

C10_Witness ==
    /\ Len(url_list) > max_workers
    /\ Cardinality({i \in 1..Len(futures) : futures[i].state = "running"})
          = max_workers
    /\ \E i \in 1..Len(futures) : futures[i].state = "pending"

====
